---- MODULE Spec2Model ----
(***************************************************************************)
(* A model of the bitvavo-scalper position and risk decision engine.       *)
(*                                                                         *)
(* Part A models bot/state_manager.py: one StateManager per pair, each     *)
(* with its own in-memory position and its own in-memory copy of the       *)
(* portfolio, all of them writing the one portfolio.json, and the          *)
(* trades.json audit log.                                                  *)
(*                                                                         *)
(* Part B models the polling loop ScalpingBot.run of bot/scalping_bot.py   *)
(* and the position ledger it drives.                                      *)
(*                                                                         *)
(* Conventions.  Prices are whole euros.  Quantities are fixed-point       *)
(* numbers counted in hundredths of the base asset.  A call of a           *)
(* TradingUtils coroutine is modelled by the value the coroutine resolves  *)
(* to, or by the exception it raises.  A missing value (Python's None, a   *)
(* key absent from a dict) is the record NoPos for a position and the      *)
(* number Undefined for an indicator.                                      *)
(***************************************************************************)
EXTENDS Integers, Sequences, FiniteSets, TLC

(***************************************************************************)
(* Configuration and input domains                                         *)
(***************************************************************************)

\* config["PAIRS"]
Pairs == {"ADA-EUR", "BTC-EUR"}

\* The prices the venue quotes.
Prices == {95, 100}

\* The budgets a caller passes to StateManager.buy.
Budgets == {0, 200}

\* config["TRADE_FEE_PERCENTAGE"], in percent.
TRADE_FEE_PERCENTAGE == 1

\* config.get("RSI_POINTS", 14): the capacity of the RSI window.
rsi_points == 2

\* The periods config["EMA_PROFILE"] can select from EMA_PROFILES.
EmaPeriods == {1, 3}

\* config.get("ATR_MULTIPLIER", 1.5), times ten; here 1.3.
ATR_MULTIPLIER_X10 == 13

\* config.get("STOP_LOSS_PERCENTAGE", -5)
STOP_LOSS_PERCENTAGE == -5

\* config.get("STOP_LOSS_MAX_RETRIES", 3)
STOP_LOSS_MAX_RETRIES == 3

\* config.get("MAX_TRADES_PER_PAIR", 1)
MAX_TRADES_PER_PAIR == 2

\* config["RSI_BUY_THRESHOLD"] and config["RSI_SELL_THRESHOLD"]
RSI_BUY_THRESHOLD == 30

RSI_SELL_THRESHOLD == 70

\* config["MINIMUM_PROFIT_PERCENTAGE"], in percent.
MINIMUM_PROFIT_PERCENTAGE == 1

\* config["TOTAL_BUDGET"], config["PORTFOLIO_ALLOCATION"][pair] in percent and
\* config.get("RISK_PERCENTAGE", 0.01) times a hundred.
TOTAL_BUDGET == 10000

PORTFOLIO_ALLOCATION == 50

RISK_PERCENTAGE_X100 == 1

\* An indicator that is None.
Undefined == -1

\* The values calculate_rsi, calculate_ema and calculate_atr can return when
\* they return a number.
RsiValues == {30, 50, 70}

EmaValues == {90, 105}

AtrValues == {0, 3}

\* The minimum order quantities (in hundredths) the venue can impose on an
\* entry.
VenueMinimums == {1, 3000}

\* The iterations of the polling loop one run of the process is followed for.
MaxTicks == 1

\* The order in which run() walks config["PAIRS"].
PairOrder == <<"ADA-EUR", "BTC-EUR">>

\* The timestamps datetime.now() can still hand out.
MaxClock == 3

\* The longest trades.json the model follows.
MaxTradeLog == 2

\* The absent position: self.position = None, or a pair that is no key of
\* the portfolio dict.
NoPos == [price |-> 0, quantity |-> 0, timestamp |-> 0]

\* The empty portfolio dict {}.
EmptyPortfolio == [q \in Pairs |-> NoPos]

\* A position written to portfolio.json by an earlier run of the process.
StoredPositions == {[price |-> 100, quantity |-> 200, timestamp |-> 0]}

\* What bitvavo.markets() answers about a pair: no entry for it, or its
\* minOrderInBaseAsset (in hundredths) and decimalPlacesBaseAsset.
ListedMarkets ==
    {[found |-> FALSE, min |-> 0, prec |-> 0], [found |-> TRUE, min |-> 100, prec |-> 1]}

\* What the venue answers to an order: a response with an orderId, or
\* anything else.
VenueResponses == {"orderId", "error"}

VARIABLES
    config,         \* the keys of ScalpingBot.config, the loaded configuration file
    demo_mode,      \* StateManager.demo_mode, the same for every pair
    position,       \* position[p]: StateManager(p).position
    portfolio,      \* portfolio[p]: StateManager(p).portfolio, a dict
    portfolioFile,  \* the contents of data/portfolio.json
    tradesFile,     \* the contents of data/trades.json
    now,            \* the clock behind datetime.now()
    lastOp,         \* the last StateManager call and what it reported
    selected_ema,   \* ScalpingBot.selected_ema
    price_history,  \* ScalpingBot.price_history[pair]
    ema_history,    \* ScalpingBot.ema_history[pair]
    ledger,         \* the open positions of each pair the bot's ledger holds
    pc,             \* where run() stands
    tick,           \* the iterations of the polling loop started in this run
    pairIdx,        \* the pair the for loop is at, as an index of PairOrder
    current_price,  \* run()'s locals of the pair's cycle
    rsi,
    ema,
    open_positions,
    posIdx,         \* the position the for loop over open_positions is at
    cycle           \* what the pair's cycle has done so far

\* The configuration keys the code reads with config[...], which raises
\* KeyError for a missing key; every other key is read with config.get and a
\* default.  StartupKeys are the ones ScalpingBot.__init__ reads.
StartupKeys == {"PAIRS", "TOTAL_BUDGET", "PORTFOLIO_ALLOCATION"}

RequiredKeys ==
    StartupKeys \cup {"TRADE_FEE_PERCENTAGE", "RSI_SELL_THRESHOLD", "RSI_BUY_THRESHOLD",
                      "MINIMUM_PROFIT_PERCENTAGE", "CHECK_INTERVAL"}

smVars == <<position, portfolio, portfolioFile, tradesFile, now, lastOp>>

botVars == <<selected_ema, price_history, ema_history, ledger, pc, tick, pairIdx,
             current_price, rsi, ema, open_positions, posIdx, cycle>>

vars == <<config, demo_mode, smVars, botVars>>

(***************************************************************************)
(* Part A: bot/state_manager.py                                            *)
(***************************************************************************)

has_position(p) == position[p] # NoPos

\* StateManager.load_portfolio: the dict stored in portfolio.json, or {}.
load_portfolio == portfolioFile

\* Python's round(quantity, precision) on a quantity in hundredths: to the
\* nearest multiple of 10^(2 - precision) hundredths, ties to even.
RoundUnit(prec) == IF prec = 0 THEN 100 ELSE IF prec = 1 THEN 10 ELSE 1

round(q, prec) ==
    LET u == RoundUnit(prec)
        r == q % u
        lo == q - r
    IN  IF 2 * r < u THEN lo
        ELSE IF 2 * r > u THEN lo + u
        ELSE IF (lo \div u) % 2 = 0 THEN lo ELSE lo + u

max(a, b) == IF a >= b THEN a ELSE b

adjust_quantity(market, quantity) ==
    IF market.found
    THEN max(market.min, round(quantity, market.prec))
    ELSE quantity

\* (budget / price) * (1 - fee_percentage / 100), in hundredths.
BuyQuantity(price, budget, fee_percentage) ==
    (budget * (100 - fee_percentage)) \div price

\* TradingUtils.place_order: the order dict, or the RuntimeError raised.  Only
\* the demo dict is made without a call of the venue client.
place_order_IgnoresDemo(demo, response) ==
    IF response = "orderId"
    THEN [raised |-> FALSE, status |-> "new", orderId |-> TRUE]
    ELSE [raised |-> TRUE, status |-> "none", orderId |-> FALSE]

place_order(demo, response) ==
    IF demo
    THEN [raised |-> FALSE, status |-> "demo", orderId |-> FALSE]
    ELSE IF response = "orderId"
         THEN [raised |-> FALSE, status |-> "new", orderId |-> TRUE]
         ELSE [raised |-> TRUE, status |-> "none", orderId |-> FALSE]

\* What a call reported: the operation and its pair, the branch it logged,
\* the amount it sent to place_order (0 when it placed no order) and what
\* place_order gave back ("none" when it placed no order).
Report(op, p, log, amount, order) ==
    [op |-> op, pair |-> p, log |-> log, amount |-> amount, order |-> order]

OrderKind(order) ==
    IF order.raised THEN "raised"
    ELSE IF order.status = "demo" THEN "demo"
    ELSE IF order.orderId THEN "filled"
    ELSE "rejected"

\* The branch StateManager.buy takes.
buy_branch_NoPositionCheck(hasPosition, quantity, order) ==
    IF quantity <= 0 THEN "invalid_quantity"
    ELSE IF order.raised THEN "order_raised"
    ELSE IF order.status = "demo" THEN "demo"
    ELSE IF order.orderId THEN "bought"
    ELSE "order_failed"

buy_branch_CommitBeforeOrder(hasPosition, quantity, order) ==
    IF hasPosition THEN "position_exists"
    ELSE IF quantity <= 0 THEN "invalid_quantity"
    ELSE IF order.status = "demo" THEN "demo"
    ELSE "bought"

buy_branch_DemoCommits(hasPosition, quantity, order) ==
    IF hasPosition THEN "position_exists"
    ELSE IF quantity <= 0 THEN "invalid_quantity"
    ELSE IF order.raised THEN "order_raised"
    ELSE "bought"

buy_branch(hasPosition, quantity, order) ==
    IF hasPosition THEN "position_exists"
    ELSE IF quantity <= 0 THEN "invalid_quantity"
    ELSE IF order.raised THEN "order_raised"
    ELSE IF order.status = "demo" THEN "demo"
    ELSE IF order.orderId THEN "bought"
    ELSE "order_failed"

\* The branch StateManager.sell takes.
sell_branch(hasPosition, quantity, order) ==
    IF ~hasPosition THEN "no_position"
    ELSE IF quantity <= 0 THEN "invalid_quantity"
    ELSE IF order.raised THEN "order_raised"
    ELSE IF order.status = "demo" THEN "demo"
    ELSE IF order.orderId THEN "sold"
    ELSE "order_failed"

\* self.portfolio[self.pair] = self.position; self.save_portfolio(): the file
\* is rewritten with this manager's own dict.
save_portfolio(p, file, dict) == dict

\* StateManager.buy(price, budget, fee_percentage) of pair p.  market is what
\* markets() answers, response what the venue answers, saveOk whether
\* portfolio.json can be written.
Buy(p, price, budget, fee_percentage, market, response, saveOk) ==
    LET quantity == adjust_quantity(market, BuyQuantity(price, budget, fee_percentage))
        order == place_order(demo_mode, response)
        branch == buy_branch(has_position(p), quantity, order)
        placed == branch \notin {"position_exists", "invalid_quantity"}
        newPosition == [price |-> price, quantity |-> quantity, timestamp |-> now]
    IN  /\ now < MaxClock
        /\ IF branch = "bought"
           THEN /\ position' = [position EXCEPT ![p] = newPosition]
                /\ portfolio' = [portfolio EXCEPT ![p][p] = newPosition]
                /\ now' = now + 1
                /\ IF saveOk
                   THEN /\ portfolioFile' = save_portfolio(p, portfolioFile, portfolio'[p])
                        /\ lastOp' = Report("buy", p, "bought", quantity, OrderKind(order))
                   ELSE /\ portfolioFile' = portfolioFile
                        /\ lastOp' = Report("buy", p, "save_raised", quantity, OrderKind(order))
           ELSE /\ lastOp' = Report("buy", p, branch, IF placed THEN quantity ELSE 0,
                                    IF placed THEN OrderKind(order) ELSE "none")
                /\ UNCHANGED <<position, portfolio, portfolioFile, now>>
        /\ UNCHANGED <<config, demo_mode, tradesFile, botVars>>

\* StateManager.sell(price, fee_percentage) of pair p.
Sell(p, price, fee_percentage, market, response, saveOk) ==
    LET quantity == adjust_quantity(market, position[p].quantity)
        order == place_order(demo_mode, response)
        branch == sell_branch(has_position(p), quantity, order)
        placed == branch \notin {"no_position", "invalid_quantity"}
    IN  /\ IF branch = "sold"
           THEN /\ position' = [position EXCEPT ![p] = NoPos]
                /\ portfolio' = [portfolio EXCEPT ![p][p] = NoPos]
                /\ IF saveOk
                   THEN /\ portfolioFile' = save_portfolio(p, portfolioFile, portfolio'[p])
                        /\ lastOp' = Report("sell", p, "sold", quantity, OrderKind(order))
                   ELSE /\ portfolioFile' = portfolioFile
                        /\ lastOp' = Report("sell", p, "save_raised", quantity, OrderKind(order))
           ELSE /\ lastOp' = Report("sell", p, branch, IF placed THEN quantity ELSE 0,
                                    IF placed THEN OrderKind(order) ELSE "none")
                /\ UNCHANGED <<position, portfolio, portfolioFile>>
        /\ UNCHANGED <<config, demo_mode, tradesFile, now, botVars>>

\* trades.json: absent, a list of trades, or text json.load cannot read.
\* The quantities passed to log_trade.
TradeQuantities == {100, 198}

NoTradesFile == [exists |-> FALSE, corrupt |-> FALSE, records |-> <<>>]

\* StateManager.log_trade(trade_type, price, quantity, profit) of pair p, which
\* neither buy nor sell nor run() calls.  io
\* tells where the file system fails: nowhere, before the file is touched, or
\* after open(..., "w") has truncated it.
log_trade(p, trade_type, price, quantity, io) ==
    LET trade == [pair |-> p, type |-> trade_type, price |-> price,
                  quantity |-> quantity, timestamp |-> now]
    IN  /\ Len(tradesFile.records) < MaxTradeLog
        /\ IF io = "fails_before_write" \/ (tradesFile.exists /\ tradesFile.corrupt)
           THEN /\ tradesFile' = tradesFile
                /\ lastOp' = Report("log_trade", p, "error_logged", 0, "none")
           ELSE IF io = "fails_in_write"
           THEN /\ tradesFile' = [exists |-> TRUE, corrupt |-> TRUE, records |-> <<>>]
                /\ lastOp' = Report("log_trade", p, "error_logged", 0, "none")
           ELSE /\ tradesFile' = [exists |-> TRUE, corrupt |-> FALSE,
                                  records |-> Append(tradesFile.records, trade)]
                /\ lastOp' = Report("log_trade", p, "logged", 0, "none")
        /\ UNCHANGED <<config, demo_mode, position, portfolio, portfolioFile, now, botVars>>

\* StateManager.__init__ for every pair, as the process (re)starts: the
\* position is None and the portfolio is what portfolio.json holds.
StartManagers ==
    /\ position' = [p \in Pairs |-> NoPos]
    /\ portfolio' = [p \in Pairs |-> load_portfolio]
    /\ lastOp' = Report("start", "none", "started", 0, "none")
    /\ UNCHANGED <<config, demo_mode, portfolioFile, tradesFile, now, botVars>>

InitSM ==
    /\ demo_mode \in BOOLEAN
    /\ portfolioFile \in [Pairs -> StoredPositions \cup {NoPos}]
    /\ tradesFile = NoTradesFile
    /\ now = 1
    /\ position = [p \in Pairs |-> NoPos]
    /\ portfolio = [p \in Pairs |-> portfolioFile]
    /\ lastOp = Report("start", "none", "started", 0, "none")

NextSM ==
    \/ \E p \in Pairs, price \in Prices, budget \in Budgets, market \in ListedMarkets,
          response \in VenueResponses, saveOk \in BOOLEAN :
            Buy(p, price, budget, TRADE_FEE_PERCENTAGE, market, response, saveOk)
    \/ \E p \in Pairs, price \in Prices, market \in ListedMarkets,
          response \in VenueResponses, saveOk \in BOOLEAN :
            Sell(p, price, TRADE_FEE_PERCENTAGE, market, response, saveOk)
    \/ StartManagers

(***************************************************************************)
(* Part B: ScalpingBot.run of bot/scalping_bot.py                          *)
(*                                                                         *)
(* run() calls get_open_positions, sell_position_with_retry, sell_position *)
(* and buy_dynamic of the pair's StateManager and calculate_ema,           *)
(* calculate_atr and fetch_historical_candles of TradingUtils.  The ledger *)
(* operations follow the position ledger and the execution gateway of the  *)
(* design; the indicators are inputs.                                      *)
(***************************************************************************)

Idx == 1..MAX_TRADES_PER_PAIR

curPair == PairOrder[pairIdx]

\* What a pair's cycle has done so far: whether the price was fetched, how
\* many positions were open then, how many the stoploss step has evaluated,
\* which of them (as indexes of open_positions) it triggered on and the result
\* of each order it submitted for them, which ones the profit-take step
\* evaluated and the result of each order it submitted, what the entry step
\* submitted (with the ATR it saw and the quantity it asked for, 0 when it
\* asked for none), and the last stoploss evaluation.
NoStoploss == [checked |-> FALSE, entry |-> 0, price |-> 0, atr |-> Undefined,
               triggered |-> FALSE]

NewCycle ==
    [fetched |-> FALSE, open |-> 0, slChecked |-> 0, slTriggered |-> {},
     slTrace |-> [i \in Idx |-> <<>>], ptEvaluated |-> {},
     ptTrace |-> [i \in Idx |-> <<>>], entry |-> "none", entryAtr |-> Undefined,
     entryQty |-> 0, lastSl |-> NoStoploss]

\* The order results of the execution gateway.
GatewayResults == IF demo_mode THEN {"Demo"} ELSE {"Filled", "Rejected"}

Succeeded(result) == result \in {"Filled", "Demo"}

\* StateManager.get_open_positions of pair p: the positions as stored.
get_open_positions_Stale(p) == <<>>

get_open_positions(p) == ledger[p]

\* The ledger's close: removes the first entry equal to pos, if there is one.
LedgerClose(led, p, pos) ==
    LET found == {i \in 1..Len(led[p]) : led[p][i] = pos}
    IN  IF found = {} THEN led
        ELSE LET k == CHOOSE i \in found : \A j \in found : i <= j
             IN  [led EXCEPT ![p] = SubSeq(@, 1, k - 1) \o SubSeq(@, k + 1, Len(@))]

\* The ledger's open: refused when the pair already holds the most positions
\* it may.
LedgerOpen(led, p, pos) ==
    IF Len(get_open_positions(p)) >= MAX_TRADES_PER_PAIR
    THEN led
    ELSE [led EXCEPT ![p] = Append(@, pos)]

\* sell_position_with_retry: whether the retry loop ends after an attempt.
retry_done(success, attempts, max_retries) == success \/ attempts >= max_retries

\* self.config.get("STOP_LOSS_MAX_RETRIES", 3), as passed by run().
max_retries_arg_OneMore == STOP_LOSS_MAX_RETRIES + 1

max_retries_arg == STOP_LOSS_MAX_RETRIES

\* list.append(price) and one pop(0) when the list is longer than cap.
AppendWindow(window, price, cap) ==
    LET appended == Append(window, price)
    IN  IF Len(appended) > cap THEN Tail(appended) ELSE appended

\* dynamic_stoploss of run(), times a hundred.
dynamic_stoploss_PercentageOnly(entry_price, atr_value) ==
    entry_price * (100 + STOP_LOSS_PERCENTAGE)

dynamic_stoploss(entry_price, atr_value) ==
    IF atr_value # Undefined
    THEN 100 * entry_price - 10 * ATR_MULTIPLIER_X10 * atr_value
    ELSE entry_price * (100 + STOP_LOSS_PERCENTAGE)

\* current_price <= dynamic_stoploss
stoploss_triggered(price, entry_price, atr_value) ==
    100 * price <= dynamic_stoploss(entry_price, atr_value)

\* calculate_profit_for_position(pos, price, fee) >= MINIMUM_PROFIT_PERCENTAGE,
\* with profit = (price * (1 - fee / 100) - entry) / entry * 100.
profit_reached(entry_price, price) ==
    (price * (100 - TRADE_FEE_PERCENTAGE) - 100 * entry_price) * 100
        >= MINIMUM_PROFIT_PERCENTAGE * 100 * entry_price

\* rsi >= RSI_SELL_THRESHOLD and current_price < ema
sell_signal_NoEmaCheck(r, price, e) == r >= RSI_SELL_THRESHOLD

sell_signal(r, price, e) == r >= RSI_SELL_THRESHOLD /\ price < e

\* rsi <= RSI_BUY_THRESHOLD and current_price > ema
buy_signal_NoEmaCheck(r, price, e) == r <= RSI_BUY_THRESHOLD

buy_signal(r, price, e) == r <= RSI_BUY_THRESHOLD /\ price > e

\* if atr_value is not None
atr_defined_Always(atr_value) == TRUE

atr_defined(atr_value) == atr_value # Undefined

min(a, b) == IF a <= b THEN a ELSE b

\* final_quantity of run(), in hundredths; atr_value is a number other than 0.
final_quantity_RiskOnly(price, atr_value) ==
    (TOTAL_BUDGET * RISK_PERCENTAGE_X100 * 10) \div (ATR_MULTIPLIER_X10 * atr_value)

final_quantity(price, atr_value) ==
    LET dynamic_quantity == (TOTAL_BUDGET * RISK_PERCENTAGE_X100 * 10)
                                \div (ATR_MULTIPLIER_X10 * atr_value)
        pair_budget == (TOTAL_BUDGET * PORTFOLIO_ALLOCATION) \div 100
        max_quantity == (100 * pair_budget) \div (MAX_TRADES_PER_PAIR * price)
    IN  min(dynamic_quantity, max_quantity)

\* max(self.rsi_points, self.selected_ema)
required_candles == max(rsi_points, selected_ema)

\* The n prices fetch_historical_prices returns.
HistoricalPrices(n) == [i \in 1..n |-> IF i % 2 = 1 THEN 100 ELSE 95]

ResetLocals ==
    /\ current_price' = 0
    /\ rsi' = Undefined
    /\ ema' = Undefined
    /\ open_positions' = <<>>
    /\ posIdx' = 1
    /\ cycle' = NewCycle

\* The exception leaves run(): the finally clause logs and the process ends.
Crash ==
    /\ pc' = "crashed"
    /\ UNCHANGED <<ledger, tick, pairIdx, selected_ema>>

\* while True: a new iteration starts with the first pair.
StartTick ==
    /\ pc = "sleep"
    /\ tick < MaxTicks
    /\ tick' = tick + 1
    /\ pairIdx' = 1
    /\ pc' = "fetch"
    /\ UNCHANGED <<config, demo_mode, smVars, selected_ema, price_history, ema_history, ledger,
                   current_price, rsi, ema, open_positions, posIdx, cycle>>

\* fetch_current_price raises: nothing in run() catches it.
FetchPriceFails ==
    /\ pc = "fetch"
    /\ Crash
    /\ UNCHANGED <<config, demo_mode, smVars, price_history, ema_history,
                   current_price, rsi, ema, open_positions, posIdx, cycle>>

\* Lines 140-182: the price is fetched and appended to both windows, EMA and RSI
\* are computed when their window is full, the price line is logged and the
\* open positions are read.
FetchPrice(price, rsiValue, emaValue) ==
    LET p == curPair
        ph == AppendWindow(price_history[p], price, rsi_points)
        eh == AppendWindow(ema_history[p], price, selected_ema)
        newEma == IF Len(eh) >= selected_ema THEN emaValue ELSE Undefined
        newRsi == IF Len(ph) >= rsi_points THEN rsiValue ELSE Undefined
        \* the log line formats rsi with :.2f whenever ema is not None
        logRaises == newEma # Undefined /\ newRsi = Undefined
    IN  /\ pc = "fetch"
        /\ price_history' = [price_history EXCEPT ![p] = ph]
        /\ ema_history' = [ema_history EXCEPT ![p] = eh]
        /\ current_price' = price
        /\ ema' = newEma
        /\ rsi' = newRsi
        /\ posIdx' = 1
        /\ IF logRaises
           THEN /\ Crash
                /\ open_positions' = <<>>
                /\ cycle' = [cycle EXCEPT !.fetched = TRUE,
                                          !.open = Len(get_open_positions(p))]
           ELSE /\ pc' = "stoploss"
                /\ open_positions' = get_open_positions(p)
                /\ cycle' = [cycle EXCEPT !.fetched = TRUE,
                                          !.open = Len(get_open_positions(p))]
                /\ UNCHANGED <<ledger, tick, pairIdx, selected_ema>>
        /\ UNCHANGED <<config, demo_mode, smVars>>

\* Lines 183-213: the stoploss of the position the loop is at.  atr_value is
\* Undefined when the candle fetch or calculate_atr fails.
StoplossCheck(atr_value) ==
    LET pos == open_positions[posIdx]
        triggered == stoploss_triggered(current_price, pos.price, atr_value)
    IN  /\ pc = "stoploss"
        /\ posIdx <= Len(open_positions)
        /\ cycle' = [cycle EXCEPT
                        !.slChecked = @ + 1,
                        !.slTriggered = IF triggered THEN @ \cup {posIdx} ELSE @,
                        !.lastSl = [checked |-> TRUE, entry |-> pos.price,
                                    price |-> current_price, atr |-> atr_value,
                                    triggered |-> triggered]]
        /\ pc' = IF triggered THEN "retry" ELSE "stoploss"
        /\ posIdx' = IF triggered THEN posIdx ELSE posIdx + 1
        /\ UNCHANGED <<config, demo_mode, smVars, selected_ema, price_history, ema_history, ledger,
                       tick, pairIdx, current_price, rsi, ema, open_positions>>

\* Lines 214-221: one attempt of sell_position_with_retry for the position the
\* stoploss triggered on.
StoplossAttempt(result) ==
    LET pos == open_positions[posIdx]
        trace == Append(cycle.slTrace[posIdx], result)
        done == retry_done(Succeeded(result), Len(trace), max_retries_arg)
    IN  /\ pc = "retry"
        /\ cycle' = [cycle EXCEPT !.slTrace[posIdx] = trace]
        /\ ledger' = IF Succeeded(result) THEN LedgerClose(ledger, curPair, pos) ELSE ledger
        /\ pc' = IF done THEN "stoploss" ELSE "retry"
        /\ posIdx' = IF done THEN posIdx + 1 ELSE posIdx
        /\ UNCHANGED <<config, demo_mode, smVars, selected_ema, price_history, ema_history,
                       tick, pairIdx, current_price, rsi, ema, open_positions>>

\* Lines 224-226 and 244: after the stoploss loop, the branch the indicators
\* select.
Decide ==
    /\ pc = "stoploss"
    /\ posIdx > Len(open_positions)
    /\ pc' = IF rsi # Undefined /\ ema # Undefined
             THEN IF sell_signal(rsi, current_price, ema) THEN "profit"
                  ELSE IF buy_signal(rsi, current_price, ema) THEN "entry"
                  ELSE "next"
             ELSE "next"
    /\ posIdx' = 1
    /\ UNCHANGED <<config, demo_mode, smVars, selected_ema, price_history, ema_history, ledger,
                   tick, pairIdx, current_price, rsi, ema, open_positions, cycle>>

\* Lines 227-242: the profit-take of the position the loop over open_positions
\* is at; sell_position submits one order.
ProfitTake(result) ==
    LET pos == open_positions[posIdx]
        sells == profit_reached(pos.price, current_price)
    IN  /\ pc = "profit"
        /\ posIdx <= Len(open_positions)
        /\ cycle' = [cycle EXCEPT
                        !.ptEvaluated = @ \cup {posIdx},
                        !.ptTrace[posIdx] = IF sells THEN Append(@, result) ELSE @]
        /\ ledger' = IF sells /\ Succeeded(result)
                     THEN LedgerClose(ledger, curPair, pos) ELSE ledger
        /\ posIdx' = posIdx + 1
        /\ UNCHANGED <<config, demo_mode, smVars, selected_ema, price_history, ema_history,
                       pc, tick, pairIdx, current_price, rsi, ema, open_positions>>

\* Line 244: the entry branch is the elif of the sell-signal branch, so the
\* iteration goes on to the next pair once the profit-take loop is through.
after_profit_take_FallsThrough == "entry"

after_profit_take == "next"

ProfitDone ==
    /\ pc = "profit"
    /\ posIdx > Len(open_positions)
    /\ pc' = after_profit_take
    /\ UNCHANGED <<config, demo_mode, smVars, selected_ema, price_history, ema_history, ledger,
                   tick, pairIdx, current_price, rsi, ema, open_positions, posIdx, cycle>>

\* Lines 245-296: the entry.  buy_dynamic turns down a quantity that is not
\* above 0 or is below the venue's minimum, submits one order and opens the
\* position when the order succeeds.
Entry(atr_value, result, venueMinimum) ==
    /\ pc = "entry"
    /\ IF Len(open_positions) >= MAX_TRADES_PER_PAIR
       THEN /\ cycle' = [cycle EXCEPT !.entry = "max_trades", !.entryAtr = atr_value]
            /\ pc' = "next"
            /\ UNCHANGED <<ledger, tick, pairIdx, selected_ema>>
       ELSE IF ~atr_defined(atr_value)
       THEN /\ cycle' = [cycle EXCEPT !.entry = "no_atr", !.entryAtr = atr_value]
            /\ pc' = "next"
            /\ UNCHANGED <<ledger, tick, pairIdx, selected_ema>>
       ELSE IF atr_value = 0
       THEN \* risk_amount / risk_per_unit raises ZeroDivisionError
            /\ cycle' = [cycle EXCEPT !.entry = "raised", !.entryAtr = atr_value]
            /\ Crash
       ELSE LET quantity == final_quantity(current_price, atr_value)
                pos == [price |-> current_price, quantity |-> quantity]
            IN  /\ pc' = "next"
                /\ UNCHANGED <<tick, pairIdx, selected_ema>>
                /\ IF quantity <= 0 \/ quantity < venueMinimum
                   THEN /\ cycle' = [cycle EXCEPT !.entry = "rejected_quantity",
                                                  !.entryAtr = atr_value]
                        /\ ledger' = ledger
                   ELSE /\ cycle' = [cycle EXCEPT !.entry = result, !.entryAtr = atr_value,
                                                  !.entryQty = quantity]
                        /\ ledger' = IF Succeeded(result)
                                     THEN LedgerOpen(ledger, curPair, pos) ELSE ledger
    /\ UNCHANGED <<config, demo_mode, smVars, price_history, ema_history,
                   current_price, rsi, ema, open_positions, posIdx>>

\* The for loop moves to the next pair, or the iteration ends and run() sleeps
\* for CHECK_INTERVAL.
NextPair ==
    /\ pc = "next"
    /\ IF pairIdx < Len(PairOrder)
       THEN pairIdx' = pairIdx + 1 /\ pc' = "fetch"
       ELSE pairIdx' = 1 /\ pc' = "sleep"
    /\ ResetLocals
    /\ UNCHANGED <<config, demo_mode, smVars, selected_ema, price_history, ema_history, ledger, tick>>

\* ScalpingBot.__init__, lines 48-74: each pair's windows start with the
\* historical prices when enough of them could be fetched, and empty otherwise.
InitialWindows(preloaded) ==
    [p \in Pairs |-> IF p \in preloaded THEN HistoricalPrices(required_candles) ELSE <<>>]

\* The process is started again: the windows are rebuilt, the ledger is what
\* was stored.
Restart(preloaded) ==
    /\ pc \in {"crashed", "sleep"}
    /\ price_history' = InitialWindows(preloaded)
    /\ ema_history' = InitialWindows(preloaded)
    /\ pc' = "sleep"
    /\ tick' = 0
    /\ pairIdx' = 1
    /\ ResetLocals
    /\ UNCHANGED <<config, demo_mode, smVars, selected_ema, ledger>>

InitBot ==
    /\ selected_ema \in EmaPeriods
    /\ \E preloaded \in SUBSET Pairs :
          /\ price_history = InitialWindows(preloaded)
          /\ ema_history = InitialWindows(preloaded)
    /\ ledger = [p \in Pairs |-> <<>>]
    /\ pc = "sleep"
    /\ tick = 0
    /\ pairIdx = 1
    /\ current_price = 0
    /\ rsi = Undefined
    /\ ema = Undefined
    /\ open_positions = <<>>
    /\ posIdx = 1
    /\ cycle = NewCycle

NextBot ==
    \/ StartTick
    \/ FetchPriceFails
    \/ \E price \in Prices, rsiValue \in RsiValues, emaValue \in EmaValues :
          FetchPrice(price, rsiValue, emaValue)
    \/ \E atr_value \in AtrValues \cup {Undefined} : StoplossCheck(atr_value)
    \/ \E result \in GatewayResults : StoplossAttempt(result)
    \/ Decide
    \/ \E result \in GatewayResults : ProfitTake(result)
    \/ ProfitDone
    \/ \E atr_value \in AtrValues \cup {Undefined}, result \in GatewayResults,
          venueMinimum \in VenueMinimums : Entry(atr_value, result, venueMinimum)
    \/ NextPair
    \/ \E preloaded \in SUBSET Pairs : Restart(preloaded)

\* A stop request (Ctrl-C, or the cancellation asyncio.run turns it into)
\* reaches run() wherever it stands: the only handler is the except
\* KeyboardInterrupt around the whole loop, which logs and lets run() end.
KeyboardInterrupt ==
    /\ pc \notin {"crashed", "stopped"}
    /\ pc' = "stopped"
    /\ UNCHANGED <<config, demo_mode, smVars, selected_ema, price_history, ema_history, ledger,
                   tick, pairIdx, current_price, rsi, ema, open_positions, posIdx, cycle>>

\* The polling loop with a stop request.
NextStop ==
    \/ NextBot
    \/ KeyboardInterrupt

\* ScalpingBot.log_message, lines 106-115, raising: it passes the message to
\* the logging facility with no handler of its own, and run() calls it before
\* the order of a stoploss (lines 210-213), of a profit-take (lines 233-236)
\* and of an entry (lines 276-280).  The exception leaves run(), whose only
\* handler is for KeyboardInterrupt.
NotifyFails(atr_value) ==
    /\ \/ pc = "retry" /\ cycle.slTrace[posIdx] = <<>>
       \/ /\ pc = "profit"
          /\ posIdx <= Len(open_positions)
          /\ profit_reached(open_positions[posIdx].price, current_price)
       \/ /\ pc = "entry"
          /\ Len(open_positions) < MAX_TRADES_PER_PAIR
          /\ atr_defined(atr_value)
          /\ atr_value # 0
    /\ Crash
    /\ UNCHANGED <<config, demo_mode, smVars, price_history, ema_history,
                   current_price, rsi, ema, open_positions, posIdx, cycle>>

\* The keys the branch selection of lines 224-244 reads: RSI_SELL_THRESHOLD at
\* line 226, and RSI_BUY_THRESHOLD at line 244 when the sell signal is off.
DecideReads ==
    IF rsi = Undefined \/ ema = Undefined THEN {}
    ELSE IF sell_signal(rsi, current_price, ema) THEN {"RSI_SELL_THRESHOLD"}
    ELSE {"RSI_SELL_THRESHOLD", "RSI_BUY_THRESHOLD"}

\* The key the entry reads: TRADE_FEE_PERCENTAGE at line 285, as an argument of
\* buy_dynamic, once the quantity has been sized.
EntryReads(atr_value) ==
    IF Len(open_positions) < MAX_TRADES_PER_PAIR /\ atr_defined(atr_value) /\ atr_value # 0
    THEN {"TRADE_FEE_PERCENTAGE"} ELSE {}

\* The keys the next step of run() reads with config[...]: line 218 before the
\* stoploss sell, lines 226 and 244 in the branch selection, lines 230 and 232
\* for every position of the profit-take loop, line 285 before the entry and
\* line 297 for the sleep that ends the iteration.
Reads(atr_value) ==
    IF pc = "retry" THEN {"TRADE_FEE_PERCENTAGE"}
    ELSE IF pc = "stoploss" /\ posIdx > Len(open_positions) THEN DecideReads
    ELSE IF pc = "profit" /\ posIdx <= Len(open_positions)
    THEN {"TRADE_FEE_PERCENTAGE", "MINIMUM_PROFIT_PERCENTAGE"}
    ELSE IF pc = "entry" THEN EntryReads(atr_value)
    ELSE IF pc = "next" /\ pairIdx = Len(PairOrder) THEN {"CHECK_INTERVAL"}
    ELSE {}

\* config[key] raises KeyError for a key the configuration file lacks; the
\* exception leaves run(), whose only handler is for KeyboardInterrupt.
KeyError(atr_value) ==
    /\ ~(Reads(atr_value) \subseteq config)
    /\ Crash
    /\ UNCHANGED <<config, demo_mode, smVars, price_history, ema_history,
                   current_price, rsi, ema, open_positions, posIdx, cycle>>

\* The polling loop under a configuration file that may lack keys: a step is
\* taken when the keys it reads are there.  ScalpingBot.__init__ reads
\* StartupKeys, so the process only starts with them.
NextConfig ==
    \/ StartTick
    \/ FetchPriceFails
    \/ \E price \in Prices, rsiValue \in RsiValues, emaValue \in EmaValues :
          FetchPrice(price, rsiValue, emaValue)
    \/ \E atr_value \in AtrValues \cup {Undefined} : StoplossCheck(atr_value)
    \/ \E result \in GatewayResults :
          Reads(Undefined) \subseteq config /\ StoplossAttempt(result)
    \/ Reads(Undefined) \subseteq config /\ Decide
    \/ \E result \in GatewayResults :
          Reads(Undefined) \subseteq config /\ ProfitTake(result)
    \/ ProfitDone
    \/ \E atr_value \in AtrValues \cup {Undefined}, result \in GatewayResults,
          venueMinimum \in VenueMinimums :
          Reads(atr_value) \subseteq config /\ Entry(atr_value, result, venueMinimum)
    \/ Reads(Undefined) \subseteq config /\ NextPair
    \/ \E preloaded \in SUBSET Pairs :
          StartupKeys \subseteq config /\ Restart(preloaded)
    \/ \E atr_value \in AtrValues \cup {Undefined} : KeyError(atr_value)

\* The polling loop with a logging facility that can fail.
NextNotify ==
    \/ NextBot
    \/ \E atr_value \in AtrValues \cup {Undefined} : NotifyFails(atr_value)

(***************************************************************************)
(* Specifications                                                          *)
(***************************************************************************)

\* The StateManagers of bot/state_manager.py under arbitrary callers; run()
\* does not act.
InitSpecSM ==
    /\ InitSM
    /\ config = RequiredKeys
    /\ selected_ema = 3
    /\ price_history = [p \in Pairs |-> <<>>]
    /\ ema_history = [p \in Pairs |-> <<>>]
    /\ ledger = [p \in Pairs |-> <<>>]
    /\ pc = "sleep"
    /\ tick = 0
    /\ pairIdx = 1
    /\ current_price = 0
    /\ rsi = Undefined
    /\ ema = Undefined
    /\ open_positions = <<>>
    /\ posIdx = 1
    /\ cycle = NewCycle

SpecSM == InitSpecSM /\ [][NextSM]_vars

\* The trades.json audit log of bot/state_manager.py under arbitrary callers of
\* log_trade.
NextLog ==
    \E p \in Pairs, trade_type \in {"buy", "sell"}, price \in Prices,
       quantity \in TradeQuantities,
       io \in {"ok", "fails_before_write", "fails_in_write"} :
        log_trade(p, trade_type, price, quantity, io)

SpecLog == InitSpecSM /\ [][NextLog]_vars

\* The polling loop of bot/scalping_bot.py; the StateManagers of Part A are not
\* called.
InitSpecBot ==
    /\ InitBot
    /\ config = RequiredKeys
    /\ demo_mode \in BOOLEAN
    /\ portfolioFile = EmptyPortfolio
    /\ tradesFile = NoTradesFile
    /\ now = 1
    /\ position = [p \in Pairs |-> NoPos]
    /\ portfolio = [p \in Pairs |-> EmptyPortfolio]
    /\ lastOp = Report("start", "none", "started", 0, "none")

SpecBot == InitSpecBot /\ [][NextBot]_vars

\* The polling loop of bot/scalping_bot.py with a stop request.
SpecStop == InitSpecBot /\ [][NextStop]_vars

\* The polling loop of bot/scalping_bot.py with a logging facility that can
\* fail.
SpecNotify == InitSpecBot /\ [][NextNotify]_vars

\* ScalpingBot.__init__ raised KeyError: run() is never called.
ConstructorRaised ==
    /\ selected_ema \in EmaPeriods
    /\ price_history = [p \in Pairs |-> <<>>]
    /\ ema_history = [p \in Pairs |-> <<>>]
    /\ ledger = [p \in Pairs |-> <<>>]
    /\ pc = "crashed"
    /\ tick = 0
    /\ pairIdx = 1
    /\ current_price = 0
    /\ rsi = Undefined
    /\ ema = Undefined
    /\ open_positions = <<>>
    /\ posIdx = 1
    /\ cycle = NewCycle

\* The process is started with a configuration file that lacks one of the
\* required keys.
InitSpecConfig ==
    /\ \E key \in RequiredKeys : config = RequiredKeys \ {key}
    /\ IF StartupKeys \subseteq config THEN InitBot ELSE ConstructorRaised
    /\ demo_mode \in BOOLEAN
    /\ portfolioFile = EmptyPortfolio
    /\ tradesFile = NoTradesFile
    /\ now = 1
    /\ position = [p \in Pairs |-> NoPos]
    /\ portfolio = [p \in Pairs |-> EmptyPortfolio]
    /\ lastOp = Report("start", "none", "started", 0, "none")

\* The polling loop of bot/scalping_bot.py under an incomplete configuration.
SpecConfig == InitSpecConfig /\ [][NextConfig]_vars

(***************************************************************************)
(* Claims about bot/state_manager.py, checked under SpecSM                 *)
(***************************************************************************)

\* C1 (as claimed): a buy or sell of one pair leaves the entry of every other
\* pair in portfolio.json as it was: it neither removes nor reverts the
\* committed position of another pair.
C1_NoLostUpdate ==
    [][\A q \in Pairs :
         (lastOp'.op \in {"buy", "sell"} /\ lastOp'.pair # q)
            => portfolioFile'[q] = portfolioFile[q]]_vars

\* C2 (as claimed): a buy issued right after startup for a pair whose position
\* portfolio.json already holds is rejected without an order, and the stored
\* position is not overwritten.
C2_StoredPositionSurvivesStartup ==
    [][(lastOp.op = "start" /\ lastOp'.op = "buy"
          /\ portfolioFile[lastOp'.pair] # NoPos)
            => (lastOp'.order = "none" /\ portfolioFile' = portfolioFile)]_vars

\* C5 (as claimed): a sell whose order is filled removes exactly the sold pair's
\* entry from portfolio.json and makes trades.json one record longer.
C5_SellRemovesEntryAndLogsTrade ==
    [][(lastOp'.op = "sell" /\ lastOp'.log = "sold")
            => /\ portfolioFile[lastOp'.pair] # NoPos
               /\ portfolioFile' = [portfolioFile EXCEPT ![lastOp'.pair] = NoPos]
               /\ Len(tradesFile'.records) = Len(tradesFile.records) + 1]_vars

\* C6: a buy or sell whose order is neither filled nor simulated leaves the
\* position, the manager's portfolio and portfolio.json as they were, and
\* reports the failure.
C6_RejectedOrderChangesNothing ==
    [][(lastOp'.op \in {"buy", "sell"} /\ lastOp'.order \in {"raised", "rejected"})
            => /\ position' = position
               /\ portfolio' = portfolio
               /\ portfolioFile' = portfolioFile
               /\ lastOp'.log \in {"order_raised", "order_failed"}]_vars

\* C6 witness: a sell of an open, stored position was refused by the venue.
C6_Witness ==
    /\ lastOp.op = "sell"
    /\ lastOp.order = "raised"
    /\ has_position(lastOp.pair)
    /\ portfolioFile[lastOp.pair] = position[lastOp.pair]

\* C7: a buy for a pair whose manager holds a position places no order and
\* leaves the position and portfolio.json as they were.
C7_BuyOnOpenPositionRejected ==
    [][(lastOp'.op = "buy" /\ has_position(lastOp'.pair))
            => /\ lastOp'.log = "position_exists"
               /\ lastOp'.order = "none"
               /\ lastOp'.amount = 0
               /\ position' = position
               /\ portfolio' = portfolio
               /\ portfolioFile' = portfolioFile]_vars

\* C7 witness: a buy was turned down because the position exists.
C7_Witness ==
    /\ lastOp.op = "buy"
    /\ lastOp.log = "position_exists"
    /\ has_position(lastOp.pair)
    /\ portfolioFile[lastOp.pair] = position[lastOp.pair]

\* C12 (as claimed): a buy sends an order to the venue only when the quantity
\* computed from budget, price and fee is above 0 and not below the venue's
\* minimum for the pair.
C12_NoOrderBelowMinimum ==
    [][\A p \in Pairs, price \in Prices, budget \in Budgets, market \in ListedMarkets,
          response \in VenueResponses, saveOk \in BOOLEAN :
            (/\ Buy(p, price, budget, TRADE_FEE_PERCENTAGE, market, response, saveOk)
             /\ lastOp'.order \in {"filled", "rejected", "raised"})
                => /\ BuyQuantity(price, budget, TRADE_FEE_PERCENTAGE) > 0
                   /\ BuyQuantity(price, budget, TRADE_FEE_PERCENTAGE) >= market.min]_vars

\* C15: in demo mode place_order answers every order with the synthetic demo
\* result, whatever the venue would answer, and no buy or sell gets a result
\* that comes from the venue.
C15_DemoNeverContactsVenue ==
    /\ \A response \in VenueResponses :
          /\ place_order(TRUE, response).status = "demo"
          /\ ~place_order(TRUE, response).raised
    /\ (demo_mode /\ lastOp.op \in {"buy", "sell"} /\ lastOp.order # "none")
          => lastOp.order = "demo"

\* C15 witness: a buy placed an order in demo mode and got the demo result.
C15_Witness ==
    /\ demo_mode
    /\ lastOp.op = "buy"
    /\ lastOp.amount > 0
    /\ lastOp.order = "demo"

\* C21 (as claimed): when portfolio.json cannot be written during a buy or a
\* sell, the manager's position and portfolio are what they were before the
\* call.
C21_FailedSaveLeavesMemoryUnchanged ==
    [][(lastOp'.op \in {"buy", "sell"} /\ lastOp'.log = "save_raised") =>
          /\ position' = position
          /\ portfolio' = portfolio]_vars

\* C26: in demo mode a buy and a sell leave the manager's position, its
\* portfolio and portfolio.json unchanged; the simulated order takes neither
\* the branch that opens nor the one that closes a position.
C26_DemoTradesChangeNothing ==
    [][/\ (demo_mode /\ lastOp'.op \in {"buy", "sell"}) =>
              /\ position' = position
              /\ portfolio' = portfolio
              /\ portfolioFile' = portfolioFile
       /\ \A response \in VenueResponses, hasPosition \in BOOLEAN :
              /\ buy_branch(hasPosition, 100, place_order(TRUE, response)) # "bought"
              /\ sell_branch(hasPosition, 100, place_order(TRUE, response)) # "sold"]_vars

\* C26 witness: a simulated buy went through for a pair, which still has no
\* position and no entry in the manager's portfolio.
C26_Witness ==
    /\ demo_mode
    /\ lastOp.op = "buy"
    /\ lastOp.log = "demo"
    /\ ~has_position(lastOp.pair)
    /\ portfolio[lastOp.pair][lastOp.pair] = portfolioFile[lastOp.pair]

\* C27 (as claimed): the amount a sell sends to place_order is at most the
\* quantity of the position it sells.
C27_SellAtMostPositionQuantity ==
    [][(lastOp'.op = "sell" /\ lastOp'.order # "none") =>
          lastOp'.amount <= position[lastOp'.pair].quantity]_vars

(***************************************************************************)
(* Claims about ScalpingBot.run, checked under SpecBot                     *)
(***************************************************************************)

\* C3: in every reachable state every pair holds at most MAX_TRADES_PER_PAIR
\* open positions.
C3_MaxTradesPerPair ==
    \A p \in Pairs : Len(ledger[p]) <= MAX_TRADES_PER_PAIR

\* C3 witness: an entry was due for a pair that holds the most positions it
\* may, and was skipped.
C3_Witness ==
    /\ pc = "next"
    /\ cycle.entry = "max_trades"
    /\ Len(ledger[curPair]) = MAX_TRADES_PER_PAIR

\* C4 (as claimed): within a cycle, no position the stoploss step triggered on
\* is evaluated by the profit-take step.
C4_TriggeredNeverProfitEvaluated ==
    cycle.ptEvaluated \cap cycle.slTriggered = {}

\* C8: the stoploss of a position is triggered exactly when
\* price <= entry_price - ATR * multiplier, if ATR is defined, and exactly when
\* price <= entry_price * (1 + stop_loss_pct / 100), if it is not.
C8_StoplossIff ==
    LET sl == cycle.lastSl
    IN  sl.checked =>
          (sl.triggered <=>
             IF sl.atr # Undefined
             THEN 10 * sl.price <= 10 * sl.entry - ATR_MULTIPLIER_X10 * sl.atr
             ELSE 100 * sl.price <= sl.entry * (100 + STOP_LOSS_PERCENTAGE))

\* C8 witness: the candle fetch failed and the fallback stoploss was triggered
\* at its very threshold.
C8_Witness ==
    /\ cycle.lastSl.checked
    /\ cycle.lastSl.atr = Undefined
    /\ cycle.lastSl.triggered
    /\ 100 * cycle.lastSl.price = cycle.lastSl.entry * (100 + STOP_LOSS_PERCENTAGE)

\* C9 (as claimed): once the price of a pair's cycle is fetched, the cycle gets
\* to its profit-take or entry step, or ends, only after the stoploss step has
\* evaluated every position that was open, whatever RSI and EMA are.
C9_StoplossRunsFirstInEveryCycle ==
    (cycle.fetched /\ pc \in {"profit", "entry", "next", "crashed"})
        => cycle.slChecked = cycle.open

AllFailed(trace) == \A k \in 1..Len(trace) : ~Succeeded(trace[k])

StillOpen(i) ==
    \E k \in 1..Len(ledger[curPair]) : ledger[curPair][k] = open_positions[i]

\* C10: a stoploss exit submits at most STOP_LOSS_MAX_RETRIES orders and none
\* after its first success; when all of them fail the position stays open and
\* the exit does not end the process; a profit-take exit submits one order and
\* a failed one leaves the position open.
C10_BoundedRetryThenSingleAttempt ==
    \A i \in Idx :
        LET sl == cycle.slTrace[i]
            pt == cycle.ptTrace[i]
        IN  /\ Len(sl) <= STOP_LOSS_MAX_RETRIES
            /\ \A k \in 1..(Len(sl) - 1) : ~Succeeded(sl[k])
            /\ (Len(sl) > 0 /\ AllFailed(sl)) =>
                  /\ StillOpen(i)
                  /\ pc = "crashed" => cycle.entry = "raised"
            /\ Len(pt) <= 1
            /\ (Len(pt) = 1 /\ AllFailed(pt)) => StillOpen(i)

\* C10 witness: a stoploss exit used up its attempts, and the pair's cycle went
\* on to its end with the position still open.
C10_Witness ==
    /\ pc = "next"
    /\ Len(cycle.slTrace[1]) = STOP_LOSS_MAX_RETRIES
    /\ AllFailed(cycle.slTrace[1])
    /\ StillOpen(1)

\* The entry step of the pair's cycle submitted an order to the gateway.
EntrySubmitted == cycle.entry \in {"Filled", "Rejected", "Demo"}

\* C11: the quantity of an entry order is the smaller of
\* total_budget * risk_pct / (ATR * multiplier) and
\* (pair_budget / max_trades_per_pair) / price, and it is above 0.
C11_EntryQuantityIsMinOfRiskAndBudget ==
    EntrySubmitted =>
        LET risk == (TOTAL_BUDGET * RISK_PERCENTAGE_X100 * 10)
                        \div (ATR_MULTIPLIER_X10 * cycle.entryAtr)
            pair_budget == (TOTAL_BUDGET * PORTFOLIO_ALLOCATION) \div 100
            cap == (100 * pair_budget) \div (MAX_TRADES_PER_PAIR * current_price)
        IN  /\ cycle.entryQty = IF risk <= cap THEN risk ELSE cap
            /\ cycle.entryQty > 0

\* C11 witness: an entry order was filled whose quantity is the risk-based one,
\* below what the pair's budget allows.
C11_Witness ==
    /\ cycle.entry = "Filled"
    /\ cycle.entryQty > 0
    /\ cycle.entryQty * MAX_TRADES_PER_PAIR * current_price
          < 100 * ((TOTAL_BUDGET * PORTFOLIO_ALLOCATION) \div 100) - MAX_TRADES_PER_PAIR * current_price

\* C13: an entry order is submitted in a pair's cycle only if in that cycle
\* RSI <= RSI_BUY_THRESHOLD, price > EMA and the pair held fewer than
\* MAX_TRADES_PER_PAIR open positions.
C13_EntryOnlyOnBuySignalBelowMaxTrades ==
    EntrySubmitted =>
        /\ rsi # Undefined /\ ema # Undefined
        /\ rsi <= RSI_BUY_THRESHOLD
        /\ current_price > ema
        /\ cycle.open < MAX_TRADES_PER_PAIR
        /\ Len(ledger[curPair]) - (IF Succeeded(cycle.entry) THEN 1 ELSE 0)
              < MAX_TRADES_PER_PAIR

\* C13 witness: an entry order was filled for a pair that held one position
\* less than it may, and now holds the most.
C13_Witness ==
    /\ cycle.entry = "Filled"
    /\ cycle.open = MAX_TRADES_PER_PAIR - 1
    /\ Len(ledger[curPair]) = MAX_TRADES_PER_PAIR

\* C14: a profit-take sell is submitted for a position only if
\* RSI >= RSI_SELL_THRESHOLD, price < EMA and the position's profit after the
\* fee, as a percentage of its cost, is at least MINIMUM_PROFIT_PERCENTAGE; a
\* position no order succeeded for remains open.
C14_ProfitTakeOnlyOnSellSignalAndProfit ==
    \A i \in Idx :
        /\ Len(cycle.ptTrace[i]) > 0 =>
              LET pos == open_positions[i]
                  revenue_x100 == current_price * pos.quantity * (100 - TRADE_FEE_PERCENTAGE)
                  cost_x100 == pos.price * pos.quantity * 100
              IN  /\ rsi # Undefined /\ ema # Undefined
                  /\ rsi >= RSI_SELL_THRESHOLD
                  /\ current_price < ema
                  /\ (revenue_x100 - cost_x100) * 100 >= MINIMUM_PROFIT_PERCENTAGE * cost_x100
        /\ (i <= Len(open_positions) /\ AllFailed(cycle.ptTrace[i]) /\ AllFailed(cycle.slTrace[i]))
              => StillOpen(i)

\* C14 witness: in one cycle the profit-take step sold a position and evaluated
\* another whose profit was too small, which stays open.
C14_Witness ==
    \E i, j \in Idx :
        /\ cycle.ptTrace[i] = <<"Filled">>
        /\ j \in cycle.ptEvaluated
        /\ cycle.ptTrace[j] = <<>>
        /\ StillOpen(j)

\* C16 (as claimed): a failure to fetch the price of a pair leaves the windows
\* and the ledger unchanged and ends only that pair's cycle: the loop goes on
\* with the next pair.
C16_FetchFailureAbortsOnlyThePair ==
    [][FetchPriceFails =>
          /\ price_history' = price_history
          /\ ema_history' = ema_history
          /\ ledger' = ledger
          /\ pc' = "next"]_vars

\* C18 (as claimed): once a pair's price update is done, its RSI window holds
\* at most rsi_points prices and its EMA window at most selected_ema prices.
C18_WindowsWithinCapacity ==
    cycle.fetched =>
        /\ Len(price_history[curPair]) <= rsi_points
        /\ Len(ema_history[curPair]) <= selected_ema

\* C19 (as claimed): in a cycle in which RSI or EMA is undefined, run() raises
\* no error and submits no profit-take and no entry order.
C19_UndefinedIndicatorIsNoError ==
    (cycle.fetched /\ (rsi = Undefined \/ ema = Undefined)) =>
        /\ pc # "crashed"
        /\ \A i \in Idx : cycle.ptTrace[i] = <<>>
        /\ ~EntrySubmitted

\* C20: when the entry step of a cycle finds ATR undefined it submits no buy
\* order, reports the skip and is over for that cycle, with no position added.
C20_NoEntryWithoutAtr ==
    (cycle.entry \notin {"none", "max_trades"} /\ cycle.entryAtr = Undefined) =>
        /\ cycle.entry = "no_atr"
        /\ cycle.entryQty = 0
        /\ pc = "next"
        /\ Len(ledger[curPair]) <= cycle.open

\* C20 witness: a buy signal came for a pair with room for a position, ATR was
\* undefined, and the cycle ended with the skip reported.
C20_Witness ==
    /\ pc = "next"
    /\ cycle.entry = "no_atr"
    /\ buy_signal(rsi, current_price, ema)
    /\ cycle.open < MAX_TRADES_PER_PAIR

\* C25: the position the entry step of a cycle opened is still the newest of
\* the pair's ledger for the rest of that cycle, no closing order follows an
\* entry order in the cycle, and a cycle never holds both a profit-take order
\* and an entry order.
C25_EntryAndExitExclusive ==
    [][/\ Succeeded(cycle.entry) =>
              /\ Len(ledger[curPair]) > 0
              /\ ledger[curPair][Len(ledger[curPair])]
                     = [price |-> current_price, quantity |-> cycle.entryQty]
       /\ (\E result \in GatewayResults : StoplossAttempt(result) \/ ProfitTake(result))
              => cycle.entry = "none"
       /\ ~(EntrySubmitted /\ \E i \in Idx : Len(cycle.ptTrace[i]) > 0)]_vars

\* C25 witness: a cycle in which the stoploss closed an older position and the
\* entry step then opened a new one.
C25_Witness ==
    /\ cycle.entry = "Filled"
    /\ \E i \in cycle.slTriggered :
           Len(cycle.slTrace[i]) > 0 /\ Succeeded(cycle.slTrace[i][Len(cycle.slTrace[i])])

(***************************************************************************)
(* Claims about StateManager.log_trade, checked under SpecLog              *)
(***************************************************************************)

\* C22 (as claimed): every log_trade call keeps the records already stored in
\* trades.json, in their order, and makes the store exactly one record longer.
C22_TradesStoreAppendOnly ==
    [][lastOp'.op = "log_trade" =>
          /\ Len(tradesFile'.records) = Len(tradesFile.records) + 1
          /\ SubSeq(tradesFile'.records, 1, Len(tradesFile.records))
                 = tradesFile.records]_vars

(***************************************************************************)
(* Claims about stopping run(), checked under SpecStop                     *)
(***************************************************************************)

\* C17 (as claimed): when a stop request ends the loop, no pair's cycle is left
\* unfinished: either none has fetched its price yet, or the one that has is
\* at its end.
C17_StopLetsCycleFinish ==
    [][KeyboardInterrupt => (cycle.fetched => pc = "next")]_vars

(***************************************************************************)
(* Claims about notification failures in run(), checked under SpecNotify   *)
(***************************************************************************)

\* C24 (as claimed): when the notification made for a due stoploss,
\* profit-take or entry fails, run() goes on: it has not ended with an
\* exception, so the order follows and the loop keeps running.
C24_NotifyFailureKeepsTrading ==
    [][(\E atr_value \in AtrValues \cup {Undefined} : NotifyFails(atr_value))
          => pc' # "crashed"]_vars

(***************************************************************************)
(* Claims about missing configuration keys, checked under SpecConfig       *)
(***************************************************************************)

\* C23 (as claimed): a process whose configuration lacks a required key fails
\* before any pair's cycle has fetched a price and before any order is
\* submitted.
C23_MissingConfigFailsAtStartup ==
    config # RequiredKeys =>
        /\ ~cycle.fetched
        /\ ~EntrySubmitted
        /\ \A i \in Idx : cycle.slTrace[i] = <<>> /\ cycle.ptTrace[i] = <<>>

====
